---- MODULE Spec2Model ----
(***************************************************************************)
(* A model of training/tools/functions.py of HHESTIA: the branch name      *)
(* filter, the tree array flattener, the shuffling labeler, the            *)
(* probability histogram plotter and the Keras pickling patch.  Each       *)
(* function has its own specification; the variables of the functions a    *)
(* specification does not run are held at their idle values.               *)
(***************************************************************************)
EXTENDS Integers, Sequences, FiniteSets, TLC

VARIABLES
    pc,          \* position of the running function
    \* randomizeData
    array,       \* the list of pools, mutated in place by pop()
    array0,      \* the list of pools as it was passed (history)
    trainData,
    targetData,
    nEvents,
    iArray,      \* the counting loop's index
    rng,         \* the last index drawn, NoDraw before the first draw
    \* getBranchNames
    branches,    \* the names of tree.GetListOfBranches(), in order
    iBranch,     \* how many branches the for loop has visited
    treeVars,
    \* appendTreeArray
    treeArray,   \* the structured array passed in
    treeArray0,  \* the structured array as it was passed (history)
    iEntry,      \* how many entries the for loop has visited
    tmpArray,
    newArray,
    \* plotProbabilities
    probs,       \* the bundle: one [label, color] entry per class
    iProb,
    jProb,
    openFigs,    \* pyplot's open figures, the current one last
    closedFigs,  \* every figure closed so far, as it was when closed (history)
    files,       \* the files written by savefig: name -> figure saved
    \* make_keras_picklable
    patched,     \* keras.models.Model carries the two hooks
    live,        \* the weights of the model that is captured
    d,           \* the state the last __getstate__ returned, <<>> before
    arg,         \* the state passed to the running __setstate__
    inst,        \* the __dict__ of the instance restored into, <<>> when fresh
    fs,          \* the temporary directory: file name -> bytes
    fd,          \* the open NamedTemporaryFile, <<>> when none
    model_str,
    loaded,      \* the model load_model returned, <<>> when none
    outcome      \* how the last hook call ended

rdVars == <<array, array0, trainData, targetData, nEvents, iArray, rng>>

gbVars == <<branches, iBranch, treeVars>>

atVars == <<treeArray, treeArray0, iEntry, tmpArray, newArray>>

ppVars == <<probs, iProb, jProb, openFigs, closedFigs, files>>

kpVars == <<patched, live, d, arg, inst, fs, fd, model_str, loaded, outcome>>

notRd == <<gbVars, atVars, ppVars, kpVars>>

notGb == <<rdVars, atVars, ppVars, kpVars>>

notAt == <<rdVars, gbVars, ppVars, kpVars>>

notPp == <<rdVars, gbVars, atVars, kpVars>>

notKp == <<rdVars, gbVars, atVars, ppVars>>

vars == <<pc, rdVars, gbVars, atVars, ppVars, kpVars>>

\* ------------------------------------------------------------- bounds
MaxPools == 2
MaxRows == 3
MaxBranches == 4
MaxEntries == 3
MaxClasses == 3
MaxWeights == 2

\* ------------------------------------------------------------ helpers
SeqsUpTo(S, n) == UNION {[1..k -> S] : k \in 0..n}

Last(s) == s[Len(s)]

Front(s) == SubSeq(s, 1, Len(s) - 1)

RECURSIVE Reverse(_)
Reverse(s) == IF s = <<>> THEN <<>> ELSE Append(Reverse(Tail(s)), Head(s))

RECURSIVE SumLen(_)
SumLen(pools) == IF pools = <<>> THEN 0 ELSE Len(Head(pools)) + SumLen(Tail(pools))

\* rng before random.randint has been called
NoDraw == -1

\* the locals of a function that is not running
rdIdle ==
    /\ array = <<>>
    /\ array0 = <<>>
    /\ trainData = <<>>
    /\ targetData = <<>>
    /\ nEvents = 0
    /\ iArray = 0
    /\ rng = NoDraw

gbIdle ==
    /\ branches = <<>>
    /\ iBranch = 0
    /\ treeVars = <<>>

atIdle ==
    /\ treeArray = <<>>
    /\ treeArray0 = <<>>
    /\ iEntry = 0
    /\ tmpArray = <<>>
    /\ newArray = <<>>

ppIdle ==
    /\ probs = <<>>
    /\ iProb = 0
    /\ jProb = 0
    /\ openFigs = <<>>
    /\ closedFigs = <<>>
    /\ files = <<>>

kpIdle ==
    /\ patched = FALSE
    /\ live = <<>>
    /\ d = <<>>
    /\ arg = <<>>
    /\ inst = <<>>
    /\ fs = <<>>
    /\ fd = <<>>
    /\ model_str = <<>>
    /\ loaded = <<>>
    /\ outcome = "none"

\* ==================================================== getBranchNames
\* A branch name is the sequence of its characters.
Name_pt1 == <<"p", "t", "1">>

Name_massSD == <<"m", "a", "s", "s", "S", "D">>

Name_jetAK8_eta == <<"j", "e", "t", "A", "K", "8", "_", "e", "t", "a">>

Name_nJets == <<"n", "J", "e", "t", "s">>

Name_SoftDropMass == <<"S", "o", "f", "t", "D", "r", "o", "p", "M", "a", "s", "s">>

Name_genE == <<"g", "e", "n", "E">>

Name_Mass == <<"M", "a", "s", "s">>

Name_p_t == <<"p", "_", "t">>

BranchNames ==
    {Name_pt1, Name_massSD, Name_jetAK8_eta, Name_nJets,
     Name_SoftDropMass, Name_genE, Name_Mass, Name_p_t}

\* Python's  sub in name  on strings: sub occurs at some offset of name
StrIn(sub, name) ==
    \E off \in 0..(Len(name) - Len(sub)) :
        \A k \in 1..Len(sub) : name[off + k] = sub[k]

\* the filter without its  'gen'  test
SkippedNoGen(name) ==
    \/ StrIn(<<"n", "J", "e", "t", "s">>, name)
    \/ StrIn(<<"S", "o", "f", "t", "D", "r", "o", "p", "M", "a", "s", "s">>, name)
    \/ StrIn(<<"m", "a", "s", "s">>, name)
    \/ StrIn(<<"p", "t">>, name)

\* the five  if ... in name: continue  tests of the loop body
Skipped(name) ==
    \/ StrIn(<<"n", "J", "e", "t", "s">>, name)
    \/ StrIn(<<"S", "o", "f", "t", "D", "r", "o", "p", "M", "a", "s", "s">>, name)
    \/ StrIn(<<"m", "a", "s", "s">>, name)
    \/ StrIn(<<"g", "e", "n">>, name)
    \/ StrIn(<<"p", "t">>, name)

\* getBranchNames(tree): treeVars = []
InitBranch ==
    /\ pc = "branches"
    /\ branches \in SeqsUpTo(BranchNames, MaxBranches)
    /\ iBranch = 0
    /\ treeVars = <<>>
    /\ rdIdle
    /\ atIdle
    /\ ppIdle
    /\ kpIdle

\* one pass of  for branch in tree.GetListOfBranches()
VisitBranch ==
    /\ pc = "branches"
    /\ iBranch < Len(branches)
    /\ LET name == branches[iBranch + 1]
       IN  treeVars' = IF Skipped(name) THEN treeVars ELSE Append(treeVars, name)
    /\ iBranch' = iBranch + 1
    /\ UNCHANGED <<pc, branches, notGb>>

\* the loop is exhausted: return treeVars
ReturnBranch ==
    /\ pc = "branches"
    /\ iBranch = Len(branches)
    /\ pc' = "done"
    /\ UNCHANGED <<gbVars, notGb>>

NextBranch ==
    \/ VisitBranch
    \/ ReturnBranch

SpecBranch == InitBranch /\ [][NextBranch]_vars

\* ---------------------------------------------- getBranchNames: claims
Denylist ==
    {<<"n", "J", "e", "t", "s">>,
     <<"S", "o", "f", "t", "D", "r", "o", "p", "M", "a", "s", "s">>,
     <<"m", "a", "s", "s">>,
     <<"g", "e", "n">>,
     <<"p", "t">>}

\* d is a contiguous piece of name
HasPiece(sub, name) ==
    \E a \in 1..(Len(name) + 1) : \E b \in 0..Len(name) : SubSeq(name, a, b) = sub

Allowed(name) == \A sub \in Denylist : ~HasPiece(sub, name)

\* the names of s that are allowed, in the order of s
RECURSIVE AllowedOf(_)
AllowedOf(s) ==
    IF s = <<>> THEN <<>>
    ELSE IF Allowed(Head(s)) THEN <<Head(s)>> \o AllowedOf(Tail(s))
         ELSE AllowedOf(Tail(s))

\* C4: getBranchNames returns exactly the names containing none of
\* 'nJets', 'SoftDropMass', 'mass', 'gen', 'pt' (case-sensitive), in
\* input order and with nothing added; no returned name contains one of
\* them, and the result is empty when every name contains one.
C4_BranchFilter ==
    pc = "done" =>
        /\ treeVars = AllowedOf(branches)
        /\ \A k \in 1..Len(treeVars) : Allowed(treeVars[k])
        /\ \A k \in 1..Len(branches) :
              Allowed(branches[k]) => \E j \in 1..Len(treeVars) : treeVars[j] = branches[k]
        /\ Len(treeVars) <= Len(branches)
        /\ (\A k \in 1..Len(branches) : ~Allowed(branches[k])) => treeVars = <<>>

\* ["pt1","massSD","jetAK8_eta","nJets"] has been filtered to ["jetAK8_eta"]
C4_Witness ==
    /\ pc = "done"
    /\ branches = <<Name_pt1, Name_massSD, Name_jetAK8_eta, Name_nJets>>
    /\ treeVars = <<Name_jetAK8_eta>>

\* =================================================== appendTreeArray
\* An entry of the structured array is a record: field name -> value.
\* The dtype lists the fields in their order.
FieldOrder == <<"f0", "f1">>

FieldValues == {0, 1}

Entries == [{FieldOrder[k] : k \in 1..Len(FieldOrder)} -> FieldValues]

\* list(reversed(entry)): the fields in the opposite order
ListOfReversed(entry) ==
    [k \in 1..Len(FieldOrder) |-> entry[FieldOrder[Len(FieldOrder) + 1 - k]]]

\* list(entry): the values of the entry's fields, in dtype order
ListOf(entry) == [k \in 1..Len(FieldOrder) |-> entry[FieldOrder[k]]]

\* appendTreeArray(array): tmpArray = []
InitAppend ==
    /\ pc = "entries"
    /\ treeArray \in SeqsUpTo(Entries, MaxEntries)
    /\ treeArray0 = treeArray
    /\ iEntry = 0
    /\ tmpArray = <<>>
    /\ newArray = <<>>
    /\ rdIdle
    /\ gbIdle
    /\ ppIdle
    /\ kpIdle

\* one pass of  for entry in array[:]
VisitEntry ==
    /\ pc = "entries"
    /\ iEntry < Len(treeArray)
    /\ tmpArray' = Append(tmpArray, ListOf(treeArray[iEntry + 1]))
    /\ iEntry' = iEntry + 1
    /\ UNCHANGED <<pc, treeArray, treeArray0, newArray, notAt>>

\* newArray = copy.copy(tmpArray); return newArray
ReturnAppend ==
    /\ pc = "entries"
    /\ iEntry = Len(treeArray)
    /\ newArray' = tmpArray
    /\ pc' = "done"
    /\ UNCHANGED <<treeArray, treeArray0, iEntry, tmpArray, notAt>>

NextAppend ==
    \/ VisitEntry
    \/ ReturnAppend

SpecAppend == InitAppend /\ [][NextAppend]_vars

\* --------------------------------------------- appendTreeArray: claims
\* C5: appendTreeArray returns as many rows as it was given, the k-th
\* row being the list of the k-th entry's field values in field order,
\* and the array passed in is as it was.
C5_Flatten ==
    pc = "done" =>
        /\ Len(newArray) = Len(treeArray0)
        /\ \A k \in 1..Len(treeArray0) :
              /\ DOMAIN newArray[k] = 1..Len(FieldOrder)
              /\ \A f \in 1..Len(FieldOrder) :
                    newArray[k][f] = treeArray0[k][FieldOrder[f]]
        /\ treeArray = treeArray0

\* a three-row array whose rows differ has been flattened
C5_Witness ==
    /\ pc = "done"
    /\ Len(treeArray0) = 3
    /\ newArray[1] = <<0, 1>>
    /\ newArray[2] = <<1, 0>>
    /\ newArray[3] = <<1, 1>>

\* ================================================= plotProbabilities
\* A bundle entry is [probArray, label, color]; the model keeps the
\* label.  A histogram series is <<j, i>>: column i of class j's
\* probabilities.  A figure is the sequence of the series drawn on it.
Labels == {"QCD", "H", "t"}

\* plotProbabilities(probs)
InitPlot ==
    /\ pc = "figure"
    /\ probs \in SeqsUpTo(Labels, MaxClasses)
    /\ iProb = 0
    /\ jProb = 0
    /\ openFigs = <<>>
    /\ closedFigs = <<>>
    /\ files = <<>>
    /\ rdIdle
    /\ gbIdle
    /\ atIdle
    /\ kpIdle

\* the file name of  "prob_" + probs[iProb][1] + ".pdf"
FileName(i) == <<"prob_", probs[i + 1], ".pdf">>

\* plt.figure(); plt.xlabel(...): a new figure becomes the current one
NewFigure ==
    /\ pc = "figure"
    /\ iProb < Len(probs)
    /\ jProb < Len(probs)
    /\ openFigs' = Append(openFigs, <<>>)
    /\ pc' = "hist"
    /\ UNCHANGED <<probs, iProb, jProb, closedFigs, files, notPp>>

\* plt.hist(probs[jProb][0].T[iProb], ...); plt.legend(...)
Hist ==
    /\ pc = "hist"
    /\ openFigs' = [openFigs EXCEPT ![Len(openFigs)] = Append(@, <<jProb, iProb>>)]
    /\ pc' = "savefig"
    /\ UNCHANGED <<probs, iProb, jProb, closedFigs, files, notPp>>

\* plt.savefig("prob_" + probs[iProb][1] + ".pdf"): the current figure
\* replaces what the file held
SaveFig ==
    /\ pc = "savefig"
    /\ files' = [n \in DOMAIN files \cup {FileName(iProb)} |->
                    IF n = FileName(iProb) THEN Last(openFigs) ELSE files[n]]
    /\ pc' = "close"
    /\ UNCHANGED <<probs, iProb, jProb, openFigs, closedFigs, notPp>>

\* plt.close(): the current figure is closed; the inner for steps on,
\* and the outer one when the inner is exhausted
CloseFig ==
    /\ pc = "close"
    /\ closedFigs' = Append(closedFigs, Last(openFigs))
    /\ openFigs' = Front(openFigs)
    /\ IF jProb + 1 < Len(probs)
       THEN /\ jProb' = jProb + 1
            /\ iProb' = iProb
       ELSE /\ jProb' = 0
            /\ iProb' = iProb + 1
    /\ pc' = "figure"
    /\ UNCHANGED <<probs, files, notPp>>

\* the outer for is exhausted: the function returns
ReturnPlot ==
    /\ pc = "figure"
    /\ iProb >= Len(probs)
    /\ pc' = "done"
    /\ UNCHANGED <<ppVars, notPp>>

NextPlot ==
    \/ NewFigure
    \/ Hist
    \/ SaveFig
    \/ CloseFig
    \/ ReturnPlot

SpecPlot == InitPlot /\ [][NextPlot]_vars

\* ------------------------------------------- plotProbabilities: claims
\* C2: for a bundle of N classes plotProbabilities produces exactly N
\* figures, one per class i, and each figure holds N histogram series
\* (one for every class j) when it is saved as prob_<label_i>.pdf and
\* closed.
C2_OneFigurePerClass ==
    pc = "done" =>
        /\ Len(closedFigs) = Len(probs)
        /\ \A k \in 1..Len(closedFigs) : Len(closedFigs[k]) = Len(probs)
        /\ \A i \in 0..(Len(probs) - 1) :
              /\ FileName(i) \in DOMAIN files
              /\ Len(files[FileName(i)]) = Len(probs)

\* ============================================== make_keras_picklable
\* A model is the sequence of its weights.  The HDF5 container written
\* by keras.models.save_model is modelled as a length-prefixed record:
\* the number of weights, then the weights.
WeightValues == {0, 1}

Models == SeqsUpTo(WeightValues, MaxWeights)

\* keras.models.save_model(self, path): the bytes written to path
Encode(w) == <<Len(w)>> \o w

\* keras.models.load_model(path) succeeds on a well-formed container
Loadable(bytes) == Len(bytes) >= 1 /\ bytes[1] = Len(bytes) - 1

\* keras.models.load_model(path): the model read back
Decode(bytes) == Tail(bytes)

\* states that no __getstate__ of this process produced: an empty blob,
\* a truncated one, and the container of some other model
ForeignStates ==
    {[model_str |-> <<>>], [model_str |-> <<1>>], [model_str |-> <<1, 1>>]}

TmpNames == {"tmpA.hdf5", "tmpB.hdf5"}

\* the directory with file n holding bytes
WithFile(dir, n, bytes) ==
    [x \in DOMAIN dir \cup {n} |-> IF x = n THEN bytes ELSE dir[x]]

\* NamedTemporaryFile(delete=False): closing leaves the file in place
CloseKeep(dir, h) == dir

\* leaving the with block of NamedTemporaryFile(delete=True): the file
\* is closed and unlinked
CloseDelete(dir, h) == [x \in DOMAIN dir \ {h.name} |-> dir[x]]

\* fd.read(): the bytes from the handle's position to the end of file
ReadAll(bytes, pos) == SubSeq(bytes, pos + 1, Len(bytes))

\* the flush left out: the buffered bytes never reach the file
FlushNothing(bytes, h) == bytes

\* fd.flush(): the buffered bytes are written at the position they
\* were buffered for
Flush(bytes, h) == SubSeq(bytes, 1, h.pos - Len(h.wbuf)) \o h.wbuf

\* the interpreter after import: the class is not patched yet
InitPickle ==
    /\ pc = "idle"
    /\ patched = FALSE
    /\ live \in Models
    /\ d = <<>>
    /\ arg = <<>>
    /\ inst = <<>>
    /\ fs = <<>>
    /\ fd = <<>>
    /\ model_str = <<>>
    /\ loaded = <<>>
    /\ outcome = "none"
    /\ rdIdle
    /\ gbIdle
    /\ atIdle
    /\ ppIdle

\* make_keras_picklable(): cls.__getstate__ and cls.__setstate__ are set
MakeKerasPicklable ==
    /\ pc = "idle"
    /\ patched' = TRUE
    /\ UNCHANGED <<pc, live, d, arg, inst, fs, fd, model_str, loaded, outcome, notKp>>

\* NamedTemporaryFile(suffix='.hdf5', delete=True): a file that did not
\* exist is created empty and opened at position 0
OpenTemp(next) ==
    \E n \in TmpNames \ DOMAIN fs :
        /\ fs' = WithFile(fs, n, <<>>)
        /\ fd' = <<[name |-> n, pos |-> 0, wbuf |-> <<>>]>>
        /\ pc' = next

\* __getstate__(self): model_str = ""; with tempfile.NamedTemporaryFile(...)
GetStateOpen ==
    /\ pc = "idle"
    /\ patched
    /\ model_str' = <<>>
    /\ OpenTemp("gs_save")
    /\ UNCHANGED <<patched, live, d, arg, inst, loaded, outcome, notKp>>

\* keras.models.save_model(self, fd.name, overwrite=True)
GetStateSave ==
    /\ pc = "gs_save"
    /\ fs' = WithFile(fs, fd[1].name, Encode(live))
    /\ pc' = "gs_read"
    /\ UNCHANGED <<patched, live, d, arg, inst, fd, model_str, loaded, outcome, notKp>>

\* model_str = fd.read()
GetStateRead ==
    /\ pc = "gs_read"
    /\ model_str' = ReadAll(fs[fd[1].name], fd[1].pos)
    /\ fd' = <<[fd[1] EXCEPT !.pos = @ + Len(model_str')]>>
    /\ pc' = "gs_close"
    /\ UNCHANGED <<patched, live, d, arg, inst, fs, loaded, outcome, notKp>>

\* the with block of __getstate__ is left
GetStateClose ==
    /\ pc = "gs_close"
    /\ fs' = CloseDelete(fs, fd[1])
    /\ fd' = <<>>
    /\ pc' = "gs_return"
    /\ UNCHANGED <<patched, live, d, arg, inst, model_str, loaded, outcome, notKp>>

\* d = { 'model_str': model_str }; return d
GetStateReturn ==
    /\ pc = "gs_return"
    /\ d' = <<[model_str |-> model_str]>>
    /\ outcome' = "captured"
    /\ pc' = "idle"
    /\ UNCHANGED <<patched, live, arg, inst, fs, fd, model_str, loaded, notKp>>

\* __setstate__(self, state): with tempfile.NamedTemporaryFile(...)
SetStateOpen(state) ==
    /\ pc = "idle"
    /\ patched
    /\ arg' = <<state>>
    /\ loaded' = <<>>
    /\ OpenTemp("ss_write")
    /\ UNCHANGED <<patched, live, d, inst, model_str, outcome, notKp>>

\* fd.write(state['model_str']): the bytes go to the handle's buffer
SetStateWrite ==
    /\ pc = "ss_write"
    /\ fd' = <<[fd[1] EXCEPT !.wbuf = @ \o arg[1].model_str,
                             !.pos = @ + Len(arg[1].model_str)]>>
    /\ pc' = "ss_flush"
    /\ UNCHANGED <<patched, live, d, arg, inst, fs, model_str, loaded, outcome, notKp>>

\* fd.flush()
SetStateFlush ==
    /\ pc = "ss_flush"
    /\ fs' = WithFile(fs, fd[1].name, Flush(fs[fd[1].name], fd[1]))
    /\ fd' = <<[fd[1] EXCEPT !.wbuf = <<>>]>>
    /\ pc' = "ss_load"
    /\ UNCHANGED <<patched, live, d, arg, inst, model_str, loaded, outcome, notKp>>

\* model = keras.models.load_model(fd.name); it raises on a file that
\* is no container
SetStateLoad ==
    /\ pc = "ss_load"
    /\ IF Loadable(fs[fd[1].name])
       THEN /\ loaded' = <<Decode(fs[fd[1].name])>>
            /\ pc' = "ss_close"
       ELSE /\ loaded' = <<>>
            /\ pc' = "ss_unwind"
    /\ UNCHANGED <<patched, live, d, arg, inst, fs, fd, model_str, outcome, notKp>>

\* the with block of __setstate__ is left
SetStateClose ==
    /\ pc = "ss_close"
    /\ fs' = CloseDelete(fs, fd[1])
    /\ fd' = <<>>
    /\ pc' = "ss_assign"
    /\ UNCHANGED <<patched, live, d, arg, inst, model_str, loaded, outcome, notKp>>

\* the with block of __setstate__ is left by load_model's exception,
\* which goes on to the caller
SetStateUnwind ==
    /\ pc = "ss_unwind"
    /\ fs' = CloseDelete(fs, fd[1])
    /\ fd' = <<>>
    /\ outcome' = "raised"
    /\ pc' = "idle"
    /\ UNCHANGED <<patched, live, d, arg, inst, model_str, loaded, notKp>>

\* self.__dict__ = model.__dict__
SetStateAssign ==
    /\ pc = "ss_assign"
    /\ inst' = loaded
    /\ outcome' = "restored"
    /\ pc' = "idle"
    /\ UNCHANGED <<patched, live, d, arg, fs, fd, model_str, loaded, notKp>>

NextPickle ==
    \/ MakeKerasPicklable
    \/ GetStateOpen
    \/ GetStateSave
    \/ GetStateRead
    \/ GetStateClose
    \/ GetStateReturn
    \/ \E state \in ForeignStates \cup {d[k] : k \in 1..Len(d)} : SetStateOpen(state)
    \/ SetStateWrite
    \/ SetStateFlush
    \/ SetStateLoad
    \/ SetStateClose
    \/ SetStateUnwind
    \/ SetStateAssign

SpecPickle == InitPickle /\ [][NextPickle]_vars

\* ---------------------------------------- make_keras_picklable: claims
\* C6: the state __getstate__ returns holds exactly the bytes save_model
\* wrote for the model, and a __setstate__ called with that state
\* returns normally and leaves the instance with the model's weights.
C6_RoundTrip ==
    /\ d # <<>> => d[1].model_str = Encode(live)
    /\ (pc = "ss_load" /\ arg = d) => fs[fd[1].name] = Encode(live)
    /\ (pc = "idle" /\ d # <<>> /\ arg = d) =>
          /\ outcome \in {"restored", "captured"}
          /\ outcome = "restored" => inst = <<live>>

\* a model with two different weights has been captured and restored
C6_Witness ==
    /\ pc = "idle"
    /\ Len(live) = 2
    /\ live[1] # live[2]
    /\ d # <<>>
    /\ arg = d
    /\ outcome = "restored"
    /\ inst = <<live>>

\* C10: each hook has one temporary file, which exists whenever the hook
\* uses it and is gone when the hook has returned: __getstate__ reads
\* the saved bytes before the file is deleted, __setstate__ loads from
\* the flushed file before it is deleted, and between calls no
\* temporary file is left.
C10_TempFileScoped ==
    /\ Cardinality(DOMAIN fs) <= 1
    /\ fd # <<>> => fd[1].name \in DOMAIN fs
    /\ fd = <<>> => DOMAIN fs = {}
    /\ pc \in {"gs_save", "gs_read", "gs_close", "ss_write", "ss_flush",
               "ss_load", "ss_close", "ss_unwind"} <=> fd # <<>>
    /\ pc = "gs_close" =>
          /\ fs[fd[1].name] = Encode(live)
          /\ model_str = fs[fd[1].name]
    /\ pc = "ss_load" =>
          /\ fd[1].wbuf = <<>>
          /\ fs[fd[1].name] = arg[1].model_str
    /\ pc = "ss_close" =>
          /\ loaded = <<Decode(fs[fd[1].name])>>
          /\ fs[fd[1].name] = arg[1].model_str
    /\ pc \in {"idle", "gs_return", "ss_assign"} => fs = <<>>

\* a capture and a restore have both completed, each having had its file
C10_Witness ==
    /\ pc = "idle"
    /\ outcome = "restored"
    /\ d # <<>>
    /\ Len(d[1].model_str) >= 2
    /\ inst = loaded
    /\ fs = <<>>
    /\ fd = <<>>

\* ===================================================== randomizeData
Rows == {"x", "y"}

Pools == {p \in SeqsUpTo(SeqsUpTo(Rows, MaxRows), MaxPools) : SumLen(p) <= MaxRows}

\* randomizeData(array): trainData = [], targetData = [], nEvents = 0
InitRandomize ==
    /\ pc = "count"
    /\ gbIdle
    /\ atIdle
    /\ ppIdle
    /\ kpIdle
    /\ array \in Pools
    /\ array0 = array
    /\ trainData = <<>>
    /\ targetData = <<>>
    /\ nEvents = 0
    /\ iArray = 0
    /\ rng = NoDraw

\* a count that is one too high for every pool
CountedOver(n, pool) == n + Len(pool) + 1

\* nEvents = nEvents + len(array[iArray])
Counted(n, pool) == n + Len(pool)

\* for iArray in range(len(array)): one pass of the counting loop
CountPool ==
    /\ pc = "count"
    /\ iArray < Len(array)
    /\ nEvents' = Counted(nEvents, array[iArray + 1])
    /\ iArray' = iArray + 1
    /\ UNCHANGED <<pc, array, array0, trainData, targetData, rng, notRd>>

\* the counting loop is exhausted: control reaches the while
CountDone ==
    /\ pc = "count"
    /\ iArray = Len(array)
    /\ pc' = "while"
    /\ UNCHANGED <<rdVars, notRd>>

\* pop(0) in place of pop(): the first element is returned
PopFirst(pool) == Head(pool)

\* array[rng][-1] in place of array[rng].pop(): the pool keeps its row
PopKeep(pool) == pool

\* list.pop(): the element returned, and the list it leaves
PopValue(pool) == Last(pool)

PopRest(pool) == Front(pool)

\* the while body with targetData.append(rng) moved out of the if
LoopBodyLabelAlways(r) ==
    /\ pc = "while"
    /\ nEvents > 0
    /\ r \in 0..(Len(array) - 1)
    /\ rng' = r
    /\ targetData' = Append(targetData, r)
    /\ IF Len(array[r + 1]) > 0
       THEN /\ trainData' = Append(trainData, PopValue(array[r + 1]))
            /\ array' = [array EXCEPT ![r + 1] = PopRest(array[r + 1])]
            /\ nEvents' = nEvents - 1
       ELSE UNCHANGED <<trainData, array, nEvents>>
    /\ UNCHANGED <<pc, array0, iArray, notRd>>

\* the while body with nEvents = nEvents - 1 moved out of the if
LoopBodyCountAlways(r) ==
    /\ pc = "while"
    /\ nEvents > 0
    /\ r \in 0..(Len(array) - 1)
    /\ rng' = r
    /\ nEvents' = nEvents - 1
    /\ IF Len(array[r + 1]) > 0
       THEN /\ trainData' = Append(trainData, PopValue(array[r + 1]))
            /\ array' = [array EXCEPT ![r + 1] = PopRest(array[r + 1])]
            /\ targetData' = Append(targetData, r)
       ELSE UNCHANGED <<trainData, array, targetData>>
    /\ UNCHANGED <<pc, array0, iArray, notRd>>

\* one pass of the while body with random.randint(0, len(array)-1) = r
LoopBody(r) ==
    /\ pc = "while"
    /\ nEvents > 0
    /\ r \in 0..(Len(array) - 1)
    /\ rng' = r
    /\ IF Len(array[r + 1]) > 0
       THEN /\ trainData' = Append(trainData, PopValue(array[r + 1]))
            /\ array' = [array EXCEPT ![r + 1] = PopRest(array[r + 1])]
            /\ targetData' = Append(targetData, r)
            /\ nEvents' = nEvents - 1
       ELSE UNCHANGED <<trainData, array, targetData, nEvents>>
    /\ UNCHANGED <<pc, array0, iArray, notRd>>

\* while nEvents > 0 fails: return trainData, targetData
Return ==
    /\ pc = "while"
    /\ ~(nEvents > 0)
    /\ pc' = "done"
    /\ UNCHANGED <<rdVars, notRd>>

NextRandomize ==
    \/ CountPool
    \/ CountDone
    \/ \E r \in 0..(MaxPools - 1) : LoopBody(r)
    \/ Return

SpecRandomize == InitRandomize /\ [][NextRandomize]_vars

\* random.randint keeps choosing every index; the interpreter keeps running
FairRandomize ==
    /\ SpecRandomize
    /\ WF_vars(CountPool)
    /\ WF_vars(CountDone)
    /\ WF_vars(Return)
    /\ \A r \in 0..(MaxPools - 1) : WF_vars(LoopBody(r))

\* ---------------------------------------------- randomizeData: claims
Count(v, s) == Cardinality({k \in 1..Len(s) : s[k] = v})

\* the number of output positions holding row v with label i
PairCount(v, i) ==
    Cardinality({k \in 1..Len(trainData) :
                    /\ k <= Len(targetData)
                    /\ trainData[k] = v
                    /\ targetData[k] = i})

RECURSIVE CountIn(_, _)
CountIn(v, pools) ==
    IF pools = <<>> THEN 0 ELSE Count(v, Head(pools)) + CountIn(v, Tail(pools))

\* the rows of trainData whose label is i, in output order
RECURSIVE LabelledFrom(_, _)
LabelledFrom(i, k) ==
    IF k > Len(trainData) \/ k > Len(targetData) THEN <<>>
    ELSE IF targetData[k] = i
         THEN <<trainData[k]>> \o LabelledFrom(i, k + 1)
         ELSE LabelledFrom(i, k + 1)

Labelled(i) == LabelledFrom(i, 1)

PoolIndices == 0..(Len(array0) - 1)

\* C1: when randomizeData returns, the multiset of trainData is the union
\* of the pools as passed, every row is paired with the index of the pool
\* it was taken from, and label i occurs as often as pool i had rows.
C1_ShuffleComplete ==
    pc = "done" =>
        /\ Len(trainData) = SumLen(array0)
        /\ Len(targetData) = SumLen(array0)
        /\ \A v \in Rows : Count(v, trainData) = CountIn(v, array0)
        /\ \A k \in 1..Len(targetData) : targetData[k] \in PoolIndices
        /\ \A i \in PoolIndices :
              /\ Count(i, targetData) = Len(array0[i + 1])
              /\ \A v \in Rows : PairCount(v, i) = Count(v, array0[i + 1])

\* pools of sizes [2,1] have been shuffled into three labelled rows
C1_Witness ==
    /\ pc = "done"
    /\ Len(array0) = 2
    /\ Len(array0[1]) = 2
    /\ Len(array0[2]) = 1
    /\ array0[1][1] # array0[1][2]
    /\ Len(trainData) = 3
    /\ Count(0, targetData) = 2
    /\ Count(1, targetData) = 1

\* C3: under a fair choice of index randomizeData returns; the loop is
\* left exactly when nEvents is zero, nEvents being the number of rows
\* still in the pools; with no row in any pool it returns two empty lists
\* and draws no index.
C3_Terminates ==
    /\ <>(pc = "done")
    /\ [](pc \in {"while", "done"} => nEvents = SumLen(array))
    /\ [](pc = "done" => nEvents = 0)
    /\ []((pc = "while" /\ nEvents = 0) => ~ENABLED (\E r \in 0..(MaxPools - 1) : LoopBody(r)))
    /\ []((pc = "while" /\ nEvents > 0) => ~ENABLED Return)
    /\ []((pc = "done" /\ SumLen(array0) = 0) =>
              /\ rng = NoDraw
              /\ trainData = <<>>
              /\ targetData = <<>>)

\* a run over three rows in two pools has returned after drawing indices
C3_Witness ==
    /\ pc = "done"
    /\ Len(array0) = 2
    /\ SumLen(array0) = 3
    /\ rng # NoDraw
    /\ nEvents = 0

\* C7: after every pass of the loop trainData and targetData have the
\* same length, every label is a pool index, and the rows output with
\* label i together with the rows still in pool i are the rows pool i
\* was passed with.
C7_PairedInvariant ==
    /\ Len(trainData) = Len(targetData)
    /\ \A k \in 1..Len(targetData) : targetData[k] \in PoolIndices
    /\ \A i \in PoolIndices : \A v \in Rows :
          PairCount(v, i) + Count(v, array[i + 1]) = Count(v, array0[i + 1])

\* the loop is under way: some rows are out, some are still in a pool
C7_Witness ==
    /\ pc = "while"
    /\ Len(trainData) >= 1
    /\ nEvents >= 1
    /\ \E i \in PoolIndices : Len(array[i + 1]) = 0 /\ Len(array0[i + 1]) > 0

\* C8: a pass of the loop whose index designates an empty pool leaves
\* trainData, targetData, the pools and nEvents as they were, and the
\* loop goes on.
C8_EmptyDrawNoEffect ==
    [][(/\ pc = "while"
        /\ pc' = "while"
        /\ rng' \in 0..(Len(array) - 1)
        /\ Len(array[rng' + 1]) = 0)
       => (/\ UNCHANGED <<trainData, targetData, array, array0, nEvents>>
           /\ nEvents' > 0)]_vars

\* an empty pool has just been drawn while rows remain elsewhere: the
\* last label output is not the index drawn
C8_Witness ==
    /\ pc = "while"
    /\ rng # NoDraw
    /\ Len(array[rng + 1]) = 0
    /\ nEvents > 0
    /\ Len(targetData) >= 1
    /\ Last(targetData) # rng

\* C9: rows leave each pool from its end: the rows output with label i
\* are, reversed, the tail of pool i as passed, the rest being still in
\* the pool; on return every pool is empty.
C9_LastInFirstOut ==
    /\ Len(array) = Len(array0)
    /\ \A i \in PoolIndices :
          array0[i + 1] = array[i + 1] \o Reverse(Labelled(i))
    /\ pc = "done" => \A i \in PoolIndices : array[i + 1] = <<>>

\* a pool of two different rows has been drained, interleaved with
\* another pool's row
C9_Witness ==
    /\ pc = "done"
    /\ Len(array0) = 2
    /\ Len(array0[1]) = 2
    /\ array0[1][1] # array0[1][2]
    /\ targetData = <<0, 1, 0>>
    /\ array = <<<<>>, <<>>>>

====
